---- MODULE Spec2Model ----
(***************************************************************************)
(* Model of the planner SSE server (src/src/server/sseServer.ts) and of    *)
(* the HTTP handlers it dispatches to (src/src/services/plannerHandlers.ts)*)
(* with the Graph services behind them (plannerService.ts), and of the MCP *)
(* tools (unnamed/part_002, part_003, tools/contactsTools.ts,              *)
(* interfaces/contact.ts) with the module-level token set by setAuthToken. *)
(* The createTask handler is also modelled step by step, one step per      *)
(* await, with other inbound requests arriving in between.                 *)
(*                                                                         *)
(* The registry `clients` is a JavaScript Map: it is modelled as the       *)
(* sequence of its entries in insertion order.  A connection is the pair   *)
(* (req, res) handed to handleRequest; connections are numbered in the     *)
(* order they are accepted.  `wire`, `tried`, `bcasts` and `regAt` are     *)
(* observations of what the code did (frames that reached a subscriber,    *)
(* sendEvent calls made for it by broadcast, the broadcasts issued).       *)
(***************************************************************************)
EXTENDS Integers, Sequences, FiniteSets, TLC

\* ---------------------------------------------------------------- bounds
MaxTime == 1          \* Date.now() takes the values 0..MaxTime
MaxConns == 2         \* connections accepted on GET /events
MaxBroadcasts == 2    \* calls of broadcast()
MaxTasks == 2         \* tasks in one answer of the Graph API

Conns == 1..MaxConns

\* ---------------------------------------------------------------- inputs
\* The (eventType, data) pairs handed to broadcast.  eventType is one of the
\* SseEvent types; data is any value: `circular` marks one that JSON.stringify
\* rejects (a cyclic structure, a BigInt).  A text is the sequence of its
\* pieces, LF being the line break; `note` is a text of two lines.
LF == "\n"

BroadcastInputs ==
  {<<"task_created", [id |-> "t1", note |-> <<"line 1", LF, "line 2">>,
                      circular |-> FALSE]>>,
   <<"task_deleted", [id |-> "t2", circular |-> TRUE]>>}

\* What res.write does on a connection whose socket is gone: the chunk is
\* discarded, either silently or with an exception.
WriteFailures == {"drop", "throw"}

VARIABLES
  now,        \* Date.now()
  listening,  \* this.server is listening
  clients,    \* this.clients, entries in insertion order: [id, res]
  conn,       \* per connection: "none" | "open" | "dead" | "closed"
  connId,     \* per connection: the clientId captured by its close handler
  wire,       \* per connection: frames that reached the subscriber
  tried,      \* per connection: sendEvent calls made for it by broadcast
  regAt,      \* per connection: number of broadcasts issued before it registered
  bcasts,     \* the broadcasts issued so far, each with how the call ended
  currentAuthToken,  \* the auth token shared by the tools ("" = undefined)
  run,        \* the createTask handler that is running: where it stands, what it sent
  stopped,    \* the last stop(), until the server is started again: what end() did
  last        \* the last exchange: an HTTP request or a tool call, and its result

vars == <<now, listening, clients, conn, connId, wire, tried, regAt, bcasts,
          currentAuthToken, run, stopped, last>>

\* ------------------------------------------------------- pure conversions
Digit(d) ==
  CASE d = 0 -> "0" [] d = 1 -> "1" [] d = 2 -> "2" [] d = 3 -> "3" [] d = 4 -> "4"
    [] d = 5 -> "5" [] d = 6 -> "6" [] d = 7 -> "7" [] d = 8 -> "8" [] OTHER -> "9"

\* Number.prototype.toString(): decimal digits, no padding
RECURSIVE NumberToString(_)
NumberToString(n) ==
  IF n < 10 THEN Digit(n) ELSE NumberToString(n \div 10) \o Digit(n % 10)

\* Date.prototype.toISOString() of the instant t ms after the epoch (t < 1000)
ToISOString(t) ==
  "1970-01-01T00:00:00." \o Digit(t \div 100) \o Digit((t \div 10) % 10)
     \o Digit(t % 10) \o "Z"

\* ------------------------------------------------------------ Map helpers
Keys(m) == {m[i].id : i \in 1..Len(m)}
Registered(m) == {m[i].res : i \in 1..Len(m)}

\* Map.prototype.set: an existing key keeps its position and gets the new value
MapSet(m, k, v) ==
  IF k \in Keys(m)
  THEN [i \in 1..Len(m) |-> IF m[i].id = k THEN [id |-> k, res |-> v] ELSE m[i]]
  ELSE Append(m, [id |-> k, res |-> v])

\* an array-style removal: splice(indexOf(k), 1) drops the last entry when
\* the key is absent
MapDelete_Splice(m, k) ==
  IF k \in Keys(m)
  THEN SelectSeq(m, LAMBDA e : e.id # k)
  ELSE IF Len(m) = 0 THEN m ELSE SubSeq(m, 1, Len(m) - 1)

\* Map.prototype.delete: removes the entry of key k, if there is one
MapDelete(m, k) == SelectSeq(m, LAMBDA e : e.id # k)


\* --------------------------------------------------------------- sendEvent
\* TRUE when JSON.stringify throws on the value: the value itself, or the
\* `data` member of an SseEvent, is not serialisable
Circular(v) ==
  IF "circular" \in DOMAIN v THEN v.circular
  ELSE IF "data" \in DOMAIN v THEN v.data.circular
  ELSE FALSE

\* a string value printed without escaping
JSONString_Raw(s) == <<"\"">> \o s \o <<"\"">>

\* JSON.stringify of a string: quoted, a line break written as \n
JSONString(s) ==
  <<"\"">> \o [i \in 1..Len(s) |-> IF s[i] = LF THEN "\\n" ELSE s[i]] \o <<"\"">>

\* "key":value
Member(key, value) == <<"\"" \o key \o "\":">> \o value

\* JSON.stringify of a payload {id, note}
JSONPayload(v) ==
  <<"{">> \o Member("id", JSONString(<<v.id>>))
    \o (IF "note" \in DOMAIN v
        THEN <<",">> \o Member("note", JSONString(v.note)) ELSE <<>>)
    \o <<"}">>

\* JSON.stringify(data) with no indentation, members in insertion order: of
\* the greeting {clientId, message, timestamp}, of an SseEvent {type, data,
\* timestamp}, or of a bare payload
JSONStringify(v) ==
  IF "clientId" \in DOMAIN v
  THEN <<"{">> \o Member("clientId", JSONString(<<v.clientId>>))
         \o <<",">> \o Member("message", JSONString(<<v.message>>))
         \o <<",">> \o Member("timestamp", JSONString(<<v.timestamp>>)) \o <<"}">>
  ELSE IF "type" \in DOMAIN v
  THEN <<"{">> \o Member("type", JSONString(<<v.type>>))
         \o <<",">> \o Member("data", JSONPayload(v.data))
         \o <<",">> \o Member("timestamp", JSONString(<<v.timestamp>>)) \o <<"}">>
  ELSE JSONPayload(v)

\* the text `event: ${event}\ndata: ${JSON.stringify(data)}\n\n`, kept with
\* the event and the data it was made from
Message(event, data) ==
  [event |-> event, data |-> data,
   text  |-> <<"event: ", event, LF, "data: ">> \o JSONStringify(data) \o <<LF, LF>>]

\* sendEvent(res, event, data) on a connection that is alive or not; wf is
\* what res.write does when it is not.  delivered: the frame reached the
\* subscriber; caught: the catch block ran; raised: an exception left sendEvent.
sendEvent(alive, wf, event, data) ==
  LET stringifyThrows == Circular(data)
      writeThrows == ~stringifyThrows /\ ~alive /\ wf = "throw"
  IN  [delivered |-> ~stringifyThrows /\ alive,
       frame     |-> Message(event, data),
       caught    |-> stringifyThrows \/ writeThrows,
       raised    |-> FALSE]

\* --------------------------------------------------------------- broadcast
\* a loop that gives up at the first client that did not get the frame
RECURSIVE BroadcastLoop_StopAtFailure(_, _, _, _)
BroadcastLoop_StopAtFailure(es, i, st, call) ==
  IF i > Len(es) \/ st.raised THEN st
  ELSE LET c == es[i].res
           r == sendEvent(call.alive[c], call.wf[c], call.eventType, call.event)
           st1 == [clients |-> IF r.raised THEN MapDelete(st.clients, es[i].id)
                                           ELSE st.clients,
                   wire    |-> IF r.delivered
                               THEN [st.wire EXCEPT ![c] =
                                       Append(@, [frame |-> r.frame, b |-> call.n])]
                               ELSE st.wire,
                   tried   |-> [st.tried EXCEPT ![c] =
                                  Append(@, [b |-> call.n, ok |-> r.delivered])],
                   raised  |-> FALSE]
       IN  IF r.delivered THEN BroadcastLoop_StopAtFailure(es, i + 1, st1, call)
           ELSE st1

\* One pass of the for-loop of broadcast over the entries es, from entry i.
\* st = [clients, wire, tried, raised]; call = [n, eventType, event, alive, wf].
RECURSIVE BroadcastLoop(_, _, _, _)
BroadcastLoop(es, i, st, call) ==
  IF i > Len(es) \/ st.raised THEN st
  ELSE LET c == es[i].res
           r == sendEvent(call.alive[c], call.wf[c], call.eventType, call.event)
           \* catch (error) { this.clients.delete(clientId) }
           st1 == [clients |-> IF r.raised THEN MapDelete(st.clients, es[i].id)
                                           ELSE st.clients,
                   wire    |-> IF r.delivered
                               THEN [st.wire EXCEPT ![c] =
                                       Append(@, [frame |-> r.frame, b |-> call.n])]
                               ELSE st.wire,
                   tried   |-> [st.tried EXCEPT ![c] =
                                  Append(@, [b |-> call.n, ok |-> r.delivered])],
                   raised  |-> FALSE]
       IN  BroadcastLoop(es, i + 1, st1, call)

\* an event whose type is not the kind it is sent under
SseEvent_ErrorType(eventType, data, t) ==
  [type |-> "error", data |-> data, timestamp |-> ToISOString(t)]

\* the SseEvent built by broadcast at time t
SseEvent(eventType, data, t) ==
  [type |-> eventType, data |-> data, timestamp |-> ToISOString(t)]

\* a broadcast that serialises the event once, before the loop and outside
\* any try block
broadcast_StringifyOnce(st, call) ==
  IF Circular(call.event) THEN [st EXCEPT !.raised = TRUE]
  ELSE BroadcastLoop(st.clients, 1, st, call)

\* broadcast(eventType, data): the state after the call
broadcast(st, call) == BroadcastLoop(st.clients, 1, st, call)

\* ------------------------------------------------------ handleSseConnection
\* a handler that registers the client but sends no greeting
handleSseConnection_NoGreeting(m, w, c, t) ==
  LET clientId == NumberToString(t)
  IN  [clients |-> MapSet(m, clientId, c), wire |-> w, clientId |-> clientId]

\* handleSseConnection(req, res) for the new connection c at time t
handleSseConnection(m, w, c, t) ==
  LET clientId == NumberToString(t)
      r == sendEvent(TRUE, "drop", "connected",
                     [clientId  |-> clientId,
                      message   |-> "Connected to planner server",
                      timestamp |-> ToISOString(t)])
  IN  [clients  |-> MapSet(m, clientId, c),
       wire     |-> IF r.delivered
                    THEN [w EXCEPT ![c] = Append(@, [frame |-> r.frame, b |-> 0])]
                    ELSE w,
       clientId |-> clientId]

\* a close handler that forgets to remove the client
onClose_Forget(m, clientId) == m

\* req.on('close', ...): this.clients.delete(clientId)
onClose(m, clientId) == MapDelete(m, clientId)


\* ------------------------------------------------------------ HTTP requests
\* A request: method, pathname as its '/'-separated segments after the leading
\* slash (so '/api/planner/tasks/' ends with an empty segment), the
\* Authorization header as <<prefix, rest>> ("" when absent), whether
\* `http://${req.headers.host}` is a valid URL base, the body, and what the
\* Graph service call made by the handler does.
Methods == {"GET", "POST", "OPTIONS", "DELETE"}

TasksPath == <<"api", "planner", "tasks">>

Paths == {<<"events">>, TasksPath, TasksPath \o <<"t1">>, TasksPath \o <<"">>,
          <<"api", "planner">>}

\* tok1 carries the user id u1; no user id can be read from tok0
AuthHeaders == {<<"", "">>, <<"Bearer ", "">>, <<"Bearer ", "tok1">>,
                <<"Bearer ", "tok0">>, <<"Basic ", "dXNlcg==">>}

\* pathname.startsWith('/api/planner/tasks/')
IsTaskDetailsPath(path) == Len(path) > 3 /\ SubSeq(path, 1, 3) = TasksPath

\* request bodies: not JSON, or a JSON object with these members ("" = absent)
Bodies == {[json |-> FALSE, title |-> "", planId |-> "", bucketId |-> "", notes |-> ""],
           [json |-> TRUE, title |-> "", planId |-> "", bucketId |-> "", notes |-> ""],
           [json |-> TRUE, title |-> "T", planId |-> "p1", bucketId |-> "", notes |-> ""],
           [json |-> TRUE, title |-> "T", planId |-> "p1", bucketId |-> "b1", notes |-> ""],
           [json |-> TRUE, title |-> "T", planId |-> "p1", bucketId |-> "b1", notes |-> "n"]}

DefaultBody == [json |-> TRUE, title |-> "", planId |-> "", bucketId |-> "", notes |-> ""]

\* the `status` query parameter ("" = absent)
Statuses == {"", "notStarted", "inProgress", "completed", "done"}

\* ------------------------------------------------------------ Graph API
\* What the Graph API holds and answers.  A task is its percentComplete and
\* its `assignments` object (absent, or an object with the given keys); an
\* assignment key is <<prefix, rest>>, the string being prefix + rest.
Assignments ==
  {[has |-> FALSE, keys |-> {}],
   [has |-> TRUE, keys |-> {<<"user_", "u1">>}],
   [has |-> TRUE, keys |-> {<<"user_", "u2">>}],
   [has |-> TRUE, keys |-> {<<"user_", "u2">>, <<"", "u1">>}]}

Percentages == {0, 50, 100}

Tasks == [percentComplete : Percentages, assignments : Assignments]

TaskLists == UNION {[1..n -> Tasks] : n \in 0..MaxTasks}

\* the answer to GET /me/planner/tasks: an error, or a page of tasks with or
\* without an @odata.nextLink (the service may ignore the $filter it is sent)
TasksAnswers ==
  {[ok |-> FALSE, value |-> <<>>, nextLink |-> FALSE]}
    \cup [ok : {TRUE}, value : TaskLists, nextLink : BOOLEAN]

\* the answer to GET /users/{id}/planner/tasks/{id}: the task, a response
\* without a body, or an error response (404 or another), which the Graph
\* client raises as an exception
TaskAnswers == {"found", "empty", "notFound", "error"}

\* the answer to a write, or to the read of the task details
WriteAnswers == {"ok", "error"}

\* one answer per request a handler can issue
DefaultGraph ==
  [tasks |-> [ok |-> TRUE, value |-> <<>>, nextLink |-> FALSE], task |-> "found",
   create |-> "ok", details |-> "ok", patch |-> "ok"]

\* a request the code sent to the Graph API, and whether it succeeded
GraphRequest(method, url, ok) == [method |-> method, url |-> url, ok |-> ok]

\* authService.getUserIdFromToken: the user id the token carries, or nothing
getUserIdFromToken(accessToken) == IF accessToken = "tok1" THEN "u1" ELSE ""

\* assignedUserId.startsWith('user_') ? assignedUserId.substring(5) : assignedUserId
AssignedId(key) == IF key[1] = "user_" THEN key[2] ELSE key[1] \o key[2]

\* the predicate of the assignment filter of fetchPlannerTasks
AssignedTo(task, userId) ==
  /\ task.assignments.has
  /\ \E key \in task.assignments.keys : AssignedId(key) = userId

\* the predicate of the client-side status filter of fetchPlannerTasks
MatchesStatus(task, status) ==
  IF status = "completed" THEN task.percentComplete = 100
  ELSE IF status = "notStarted" THEN task.percentComplete = 0
  ELSE IF status = "inProgress"
  THEN task.percentComplete > 0 /\ task.percentComplete < 100
  ELSE TRUE

\* the $filter fetchPlannerTasks sends for a status ("" = none)
StatusFilter(status) ==
  IF status = "completed" THEN "percentComplete eq 100"
  ELSE IF status = "notStarted" THEN "percentComplete eq 0"
  ELSE IF status = "inProgress"
  THEN "percentComplete gt 0 and percentComplete lt 100"
  ELSE ""

Thrown(message, graph) ==
  [threw |-> TRUE, message |-> message, tasks |-> <<>>, count |-> 0,
   hasMore |-> FALSE, graph |-> graph]

\* fetchPlannerTasks sending the request a second time when it failed
fetchPlannerTasks_RetryOnce(input, g) ==
  LET userId == getUserIdFromToken(input.accessToken)
      sent == <<GraphRequest("GET", <<"me", "planner", "tasks",
                                      StatusFilter(input.status)>>, g.tasks.ok)>>
  IN  IF userId = ""
      THEN Thrown("Could not determine user ID from access token", <<>>)
      ELSE IF ~g.tasks.ok
      THEN Thrown("Failed to fetch planner tasks", sent \o sent)
      ELSE LET assigned == SelectSeq(g.tasks.value, LAMBDA t : AssignedTo(t, userId))
               tasks == IF input.status # ""
                        THEN SelectSeq(assigned,
                                       LAMBDA t : MatchesStatus(t, input.status))
                        ELSE assigned
           IN  [threw |-> FALSE, message |-> "", tasks |-> tasks,
                count |-> Len(tasks), hasMore |-> g.tasks.nextLink, graph |-> sent]

\* fetchPlannerTasks returning every task the Graph API answered with
fetchPlannerTasks_NoAssignmentFilter(input, g) ==
  LET userId == getUserIdFromToken(input.accessToken)
      sent == <<GraphRequest("GET", <<"me", "planner", "tasks",
                                      StatusFilter(input.status)>>, g.tasks.ok)>>
  IN  IF userId = ""
      THEN Thrown("Could not determine user ID from access token", <<>>)
      ELSE IF ~g.tasks.ok
      THEN Thrown("Failed to fetch planner tasks", sent)
      ELSE LET tasks == IF input.status # ""
                        THEN SelectSeq(g.tasks.value,
                                       LAMBDA t : MatchesStatus(t, input.status))
                        ELSE g.tasks.value
           IN  [threw |-> FALSE, message |-> "", tasks |-> tasks,
                count |-> Len(tasks), hasMore |-> g.tasks.nextLink, graph |-> sent]

\* fetchPlannerTasks relying on the $filter it sent
fetchPlannerTasks_ServerFilterOnly(input, g) ==
  LET userId == getUserIdFromToken(input.accessToken)
      sent == <<GraphRequest("GET", <<"me", "planner", "tasks",
                                      StatusFilter(input.status)>>, g.tasks.ok)>>
  IN  IF userId = ""
      THEN Thrown("Could not determine user ID from access token", <<>>)
      ELSE IF ~g.tasks.ok
      THEN Thrown("Failed to fetch planner tasks", sent)
      ELSE LET tasks == SelectSeq(g.tasks.value, LAMBDA t : AssignedTo(t, userId))
           IN  [threw |-> FALSE, message |-> "", tasks |-> tasks,
                count |-> Len(tasks), hasMore |-> g.tasks.nextLink, graph |-> sent]

\* fetchPlannerTasks({ status, accessToken })
fetchPlannerTasks(input, g) ==
  LET userId == getUserIdFromToken(input.accessToken)
      sent == <<GraphRequest("GET", <<"me", "planner", "tasks",
                                      StatusFilter(input.status)>>, g.tasks.ok)>>
  IN  IF userId = ""
      THEN Thrown("Could not determine user ID from access token", <<>>)
      ELSE IF ~g.tasks.ok
      THEN Thrown("Failed to fetch planner tasks", sent)
      ELSE LET assigned == SelectSeq(g.tasks.value, LAMBDA t : AssignedTo(t, userId))
               tasks == IF input.status # ""
                        THEN SelectSeq(assigned,
                                       LAMBDA t : MatchesStatus(t, input.status))
                        ELSE assigned
           IN  [threw |-> FALSE, message |-> "", tasks |-> tasks,
                count |-> Len(tasks), hasMore |-> g.tasks.nextLink, graph |-> sent]

\* getTaskDetails(taskId, accessToken)
getTaskDetails(taskId, accessToken, g) ==
  LET userId == getUserIdFromToken(accessToken)
      sent == <<GraphRequest("GET", <<"users", userId, "planner", "tasks", taskId>>,
                             g.task \in {"found", "empty"})>>
  IN  IF userId = ""
      THEN [threw |-> TRUE, task |-> "", graph |-> <<>>,
            message |-> "Failed to fetch task details"]
      ELSE IF g.task \in {"notFound", "error"}
      THEN [threw |-> TRUE, task |-> "", graph |-> sent,
            message |-> "Failed to fetch task details"]
      ELSE [threw |-> FALSE, task |-> IF g.task = "found" THEN taskId ELSE "",
            graph |-> sent, message |-> ""]

\* the id the Graph API gives a created task
CreatedId == "t9"

\* createPlannerTask failing when the notes cannot be stored
createPlannerTask_NotesFatal(input, g) ==
  LET userId == getUserIdFromToken(input.accessToken)
      post == GraphRequest("POST", <<"planner", "tasks">>, g.create = "ok")
      get == GraphRequest("GET", <<"planner", "tasks", CreatedId, "details">>,
                          g.details = "ok")
      patch == GraphRequest("PATCH", <<"planner", "tasks", CreatedId, "details">>,
                            g.patch = "ok")
      created == [id |-> CreatedId, title |-> input.title, planId |-> input.planId,
                  bucketId |-> input.bucketId, assignments |-> {userId},
                  notes |-> ""]
  IN  IF userId = ""
      THEN [threw |-> TRUE, task |-> created, graph |-> <<>>,
            message |-> "Could not determine user ID from access token"]
      ELSE IF g.create # "ok"
      THEN [threw |-> TRUE, task |-> created, graph |-> <<post>>,
            message |-> "Failed to create planner task"]
      ELSE IF input.notes = ""
      THEN [threw |-> FALSE, task |-> created, graph |-> <<post>>, message |-> ""]
      ELSE IF g.details # "ok"
      THEN [threw |-> TRUE, task |-> created, graph |-> <<post, get>>,
            message |-> "Failed to create planner task"]
      ELSE IF g.patch # "ok"
      THEN [threw |-> TRUE, task |-> created, graph |-> <<post, get, patch>>,
            message |-> "Failed to create planner task"]
      ELSE [threw |-> FALSE, task |-> [created EXCEPT !.notes = input.notes],
            graph |-> <<post, get, patch>>, message |-> ""]

\* createPlannerTask({ ...taskData, accessToken })
createPlannerTask(input, g) ==
  LET userId == getUserIdFromToken(input.accessToken)
      post == GraphRequest("POST", <<"planner", "tasks">>, g.create = "ok")
      get == GraphRequest("GET", <<"planner", "tasks", CreatedId, "details">>,
                          g.details = "ok")
      patch == GraphRequest("PATCH", <<"planner", "tasks", CreatedId, "details">>,
                            g.patch = "ok")
      created == [id |-> CreatedId, title |-> input.title, planId |-> input.planId,
                  bucketId |-> input.bucketId, assignments |-> {userId},
                  notes |-> ""]
  IN  IF userId = ""
      THEN [threw |-> TRUE, task |-> created, graph |-> <<>>,
            message |-> "Could not determine user ID from access token"]
      ELSE IF g.create # "ok"
      THEN [threw |-> TRUE, task |-> created, graph |-> <<post>>,
            message |-> "Failed to create planner task"]
      ELSE IF input.notes = ""
      THEN [threw |-> FALSE, task |-> created, graph |-> <<post>>, message |-> ""]
      ELSE IF g.details # "ok"
      THEN [threw |-> FALSE, task |-> created, graph |-> <<post, get>>,
            message |-> ""]
      ELSE IF g.patch # "ok"
      THEN [threw |-> FALSE, task |-> created, graph |-> <<post, get, patch>>,
            message |-> ""]
      ELSE [threw |-> FALSE, task |-> [created EXCEPT !.notes = input.notes],
            graph |-> <<post, get, patch>>, message |-> ""]

\* ------------------------------------------------------------ requests
\* authHeader.startsWith('Bearer ') ? authHeader.slice(7) : ''
AccessToken(auth) == IF auth[1] = "Bearer " THEN auth[2] ELSE ""

Request(method, path, auth, hostOk, body, status, graph) ==
  [method |-> method, path |-> path, auth |-> auth, hostOk |-> hostOk,
   body |-> body, status |-> status, graph |-> graph]

Authorized == <<"Bearer ", "tok1">>

\* every request differs from the plain one only where its handler looks;
\* the Graph API answers or fails
Requests ==
  {Request(m, p, a, TRUE, DefaultBody, "", DefaultGraph) :
     m \in Methods, p \in Paths, a \in AuthHeaders}
  \cup {Request("GET", p, a, FALSE, DefaultBody, "", DefaultGraph) :
          p \in Paths \ {<<"events">>}, a \in AuthHeaders}
  \cup {Request("POST", TasksPath, a, TRUE, b, "", DefaultGraph) :
          a \in AuthHeaders, b \in Bodies}
  \cup {Request("GET", TasksPath, Authorized, TRUE, DefaultBody, "",
                [DefaultGraph EXCEPT !.tasks.ok = FALSE])}
  \cup {Request("GET", p, Authorized, TRUE, DefaultBody, "",
                [DefaultGraph EXCEPT !.task = t]) :
          p \in {q \in Paths : IsTaskDetailsPath(q)}, t \in TaskAnswers}
  \cup {Request("POST", TasksPath, Authorized, TRUE, b, "",
                [DefaultGraph EXCEPT !.create = "error"]) : b \in Bodies}

\* paths with more than one segment after /api/planner/tasks/
DeepPaths == {TasksPath \o <<"t1", "x">>}

\* the requests to the planner API in full: every status filter against
\* every answer of the Graph API, every body against every failure
ApiRequests ==
  Requests
  \cup {Request(m, p, a, TRUE, DefaultBody, "", DefaultGraph) :
          m \in Methods, p \in DeepPaths, a \in AuthHeaders}
  \cup {Request("GET", TasksPath, a, TRUE, DefaultBody, s, DefaultGraph) :
          a \in AuthHeaders, s \in Statuses}
  \cup {Request("GET", TasksPath, a, TRUE, DefaultBody, s,
                [DefaultGraph EXCEPT !.tasks = t]) :
          a \in {h \in AuthHeaders : AccessToken(h) # ""}, s \in Statuses,
          t \in TasksAnswers}
  \cup {Request("POST", TasksPath, a, TRUE, b, "",
                [DefaultGraph EXCEPT !.create = w[1], !.details = w[2],
                                     !.patch = w[3]]) :
          a \in AuthHeaders, b \in Bodies,
          w \in WriteAnswers \X WriteAnswers \X WriteAnswers}

\* GET /events as a browser EventSource sends it: no Authorization header
EventSourceRequest ==
  Request("GET", <<"events">>, <<"", "">>, TRUE, DefaultBody, "", DefaultGraph)

\* response headers: a set of <<name, value>> pairs
\* the four res.setHeader calls at the top of handleRequest
CorsHeaders ==
  {<<"Access-Control-Allow-Origin", "*">>,
   <<"Access-Control-Request-Method", "*">>,
   <<"Access-Control-Allow-Methods", "OPTIONS, GET, POST, PATCH, DELETE">>,
   <<"Access-Control-Allow-Headers", "*">>}

JsonHeaders == {<<"Content-Type", "application/json">>}

SseHeaders ==
  {<<"Content-Type", "text/event-stream">>, <<"Cache-Control", "no-cache">>,
   <<"Connection", "keep-alive">>}

\* res.writeHead(status, given) after res.setHeader: the headers set before
\* are sent too, a header given to writeHead replaces one of the same name
writeHead(headers, given) ==
  given \cup {h \in headers : \A g \in given : g[1] # h[1]}

\* res.writeHead(status, { 'Content-Type': 'application/json' }) and
\* res.end(JSON.stringify(body))
Response(status, body) == [status |-> status, body |-> body, headers |-> JsonHeaders]

\* res.writeHead(200); res.end()
Preflight == [status |-> 200, body |-> [error |-> ""], headers |-> {}]

Unauthorized == Response(401, [error |-> "Unauthorized - No access token provided"])

\* a response together with the Graph requests issued to produce it
Answer(resp, graph) ==
  [status |-> resp.status, body |-> resp.body, headers |-> resp.headers,
   graph |-> graph]

\* handleGetTasks(req, res)
handleGetTasks(r) ==
  IF ~r.hostOk
  THEN Answer(Response(500, [error |-> "Failed to fetch tasks",
                             details |-> "Invalid URL"]), <<>>)
  ELSE IF AccessToken(r.auth) = "" THEN Answer(Unauthorized, <<>>)
  ELSE LET f == fetchPlannerTasks([status |-> r.status,
                                   accessToken |-> AccessToken(r.auth)], r.graph)
       IN  IF f.threw
           THEN Answer(Response(500, [error |-> "Failed to fetch tasks",
                                      details |-> f.message]), f.graph)
           ELSE Answer(Response(200, [error |-> "", tasks |-> f.tasks,
                                      count |-> f.count, hasMore |-> f.hasMore]),
                       f.graph)

\* handleGetTaskDetails(req, res)
handleGetTaskDetails(r) ==
  IF ~r.hostOk
  THEN Answer(Response(500, [error |-> "Failed to fetch task details",
                             details |-> "Invalid URL"]), <<>>)
  ELSE IF r.path[Len(r.path)] = ""
  THEN Answer(Response(400, [error |-> "Task ID is required"]), <<>>)
  ELSE IF AccessToken(r.auth) = "" THEN Answer(Unauthorized, <<>>)
  ELSE LET d == getTaskDetails(r.path[Len(r.path)], AccessToken(r.auth), r.graph)
       IN  IF d.threw
           THEN Answer(Response(500, [error |-> "Failed to fetch task details",
                                      details |-> d.message]), d.graph)
           ELSE IF d.task = ""
           THEN Answer(Response(404, [error |-> "Task not found"]), d.graph)
           ELSE Answer(Response(200, [error |-> "", task |-> d.task]), d.graph)

\* handleCreateTask validating the title only
handleCreateTask_TitleOnly(r) ==
  IF AccessToken(r.auth) = "" THEN Answer(Unauthorized, <<>>)
  ELSE IF ~r.body.json
  THEN Answer(Response(500, [error |-> "Failed to create task",
                             details |-> "Unexpected token"]), <<>>)
  ELSE IF r.body.title = ""
  THEN Answer(Response(400, [error |-> "Missing required fields",
                             required |-> <<"title", "planId", "bucketId">>]),
              <<>>)
  ELSE LET c == createPlannerTask(
                  [title |-> r.body.title, planId |-> r.body.planId,
                   bucketId |-> r.body.bucketId, notes |-> r.body.notes,
                   accessToken |-> AccessToken(r.auth)], r.graph)
       IN  IF c.threw
           THEN Answer(Response(500, [error |-> "Failed to create task",
                                      details |-> c.message]), c.graph)
           ELSE Answer(Response(201, [error |-> "", task |-> c.task]), c.graph)

\* handleCreateTask(req, res)
handleCreateTask(r) ==
  IF AccessToken(r.auth) = "" THEN Answer(Unauthorized, <<>>)
  ELSE IF ~r.body.json
  THEN Answer(Response(500, [error |-> "Failed to create task",
                             details |-> "Unexpected token"]), <<>>)
  ELSE IF r.body.title = "" \/ r.body.planId = "" \/ r.body.bucketId = ""
  THEN Answer(Response(400, [error |-> "Missing required fields",
                             required |-> <<"title", "planId", "bucketId">>]),
              <<>>)
  ELSE LET c == createPlannerTask(
                  [title |-> r.body.title, planId |-> r.body.planId,
                   bucketId |-> r.body.bucketId, notes |-> r.body.notes,
                   accessToken |-> AccessToken(r.auth)], r.graph)
       IN  IF c.threw
           THEN Answer(Response(500, [error |-> "Failed to create task",
                                      details |-> c.message]), c.graph)
           ELSE Answer(Response(201, [error |-> "", task |-> c.task]), c.graph)

\* the response as it is sent: the headers of writeHead over those set on res
Sent(headers, a) == [a EXCEPT !.headers = writeHead(headers, a.headers)]

\* handleRequest answering 405 to every method but GET on an unknown path
handleRequest_MethodFirst(r) ==
  Sent(CorsHeaders,
    IF r.method = "OPTIONS" THEN Answer(Preflight, <<>>)
    ELSE IF r.path = TasksPath
    THEN IF r.method = "GET" THEN handleGetTasks(r)
         ELSE IF r.method = "POST" THEN handleCreateTask(r)
         ELSE Answer(Response(405, [error |-> "Method not allowed"]), <<>>)
    ELSE IF IsTaskDetailsPath(r.path)
    THEN IF r.method = "GET" THEN handleGetTaskDetails(r)
         ELSE Answer(Response(405, [error |-> "Method not allowed"]), <<>>)
    ELSE IF r.method # "GET"
    THEN Answer(Response(405, [error |-> "Method not allowed"]), <<>>)
    ELSE Answer(Response(404, [error |-> "Endpoint not found"]), <<>>))

\* handleRequest setting the CORS headers in the preflight branch only
handleRequest_CorsOnPreflight(r) ==
  IF r.method = "OPTIONS" THEN Sent(CorsHeaders, Answer(Preflight, <<>>))
  ELSE Sent({},
    IF r.path = TasksPath
    THEN IF r.method = "GET" THEN handleGetTasks(r)
         ELSE IF r.method = "POST" THEN handleCreateTask(r)
         ELSE Answer(Response(405, [error |-> "Method not allowed"]), <<>>)
    ELSE IF IsTaskDetailsPath(r.path)
    THEN IF r.method = "GET" THEN handleGetTaskDetails(r)
         ELSE Answer(Response(405, [error |-> "Method not allowed"]), <<>>)
    ELSE Answer(Response(404, [error |-> "Endpoint not found"]), <<>>))

\* handleRequest(req, res) for every request but GET /events: the CORS
\* headers are set on res before anything is decided
handleRequest(r) ==
  Sent(CorsHeaders,
    IF r.method = "OPTIONS" THEN Answer(Preflight, <<>>)
    ELSE IF r.path = TasksPath
    THEN IF r.method = "GET" THEN handleGetTasks(r)
         ELSE IF r.method = "POST" THEN handleCreateTask(r)
         ELSE Answer(Response(405, [error |-> "Method not allowed"]), <<>>)
    ELSE IF IsTaskDetailsPath(r.path)
    THEN IF r.method = "GET" THEN handleGetTaskDetails(r)
         ELSE Answer(Response(405, [error |-> "Method not allowed"]), <<>>)
    ELSE Answer(Response(404, [error |-> "Endpoint not found"]), <<>>))

\* ------------------------------------------------------------- MCP tools
\* The tools of plannerTools (unnamed/part_002) over the plannerService they
\* import (unnamed/part_003), the tools of contactsTools over its service,
\* and the fetchTasks and createTask tools that read the shared auth token.

\* the values setAuthToken is called with ("" = undefined)
AuthTokens == {"", "tok1", "tok2"}

\* process.env of the planner tools ("" = not set)
Envs ==
  {[USER_ID |-> "", DEFAULT_PLAN_ID |-> "", DEFAULT_BUCKET_ID |-> ""],
   [USER_ID |-> "u1", DEFAULT_PLAN_ID |-> "p0", DEFAULT_BUCKET_ID |-> ""],
   [USER_ID |-> "u1", DEFAULT_PLAN_ID |-> "p0", DEFAULT_BUCKET_ID |-> "b0"]}

DefaultEnv == [USER_ID |-> "", DEFAULT_PLAN_ID |-> "", DEFAULT_BUCKET_ID |-> ""]

\* fetchPlannerTasksSchema: status is optional, top is 1..100 (default 100)
ToolStatuses == {"", "notStarted", "inProgress", "completed"}

Tops == {1, 100}

\* tasks as the planner tools read them
PlanTasks ==
  [percentComplete : Percentages,
   ids : {[planId |-> "p2", bucketId |-> "b2"], [planId |-> "p2", bucketId |-> ""]}]

PlanTaskLists == UNION {[1..n -> PlanTasks] : n \in 0..MaxTasks}

\* the answer to GET /users/{id}/planner/tasks
PlanTasksAnswers ==
  {[ok |-> FALSE, value |-> <<>>, nextLink |-> FALSE]}
    \cup [ok : {TRUE}, value : PlanTaskLists, nextLink : BOOLEAN]

\* the answer to GET /users/{id}/contacts
ContactsAnswers ==
  {[ok |-> FALSE, value |-> <<>>, nextLink |-> FALSE]}
    \cup [ok : {TRUE}, value : {<<>>, <<"c1">>}, nextLink : BOOLEAN]

\* the answer to GET /me/calendarView: an error response, a body that
\* holds no array, or a list
EventsAnswers == {"error", "notArray", "none", "some"}

\* the answer to a lookup of plans or buckets: an error response, an empty
\* list, or a list
LookupAnswers == {"error", "empty", "ok"}

\* one answer per request a tool can issue
DefaultToolGraph ==
  [tasks |-> [ok |-> TRUE, value |-> <<>>, nextLink |-> FALSE],
   create |-> "ok", details |-> "ok", patch |-> "ok", contact |-> "ok",
   contacts |-> [ok |-> TRUE, value |-> <<>>, nextLink |-> FALSE],
   events |-> "none", plans |-> "ok", buckets |-> "ok"]

\* user_id === 'me' ? (process.env.USER_ID || 'me') : user_id
TargetUser(user_id, env) ==
  IF user_id = "me" THEN (IF env.USER_ID # "" THEN env.USER_ID ELSE "me")
  ELSE user_id

\* fetchPlannerTasks(input) of the tools' plannerService
fetchPlannerTasksForUser(input, env, g) ==
  LET filter == StatusFilter(input.status)
      sent == <<GraphRequest("GET", <<"users", TargetUser(input.user_id, env),
                                      "planner", "tasks", filter>>, g.tasks.ok)>>
  IN  IF ~g.tasks.ok
      THEN Thrown("Failed to fetch planner tasks", sent)
      ELSE LET tasks == IF filter # "" /\ Len(g.tasks.value) > 0
                        THEN SelectSeq(g.tasks.value,
                                       LAMBDA t : MatchesStatus(t, input.status))
                        ELSE g.tasks.value
           IN  [threw |-> FALSE, message |-> "", tasks |-> tasks,
                count |-> Len(tasks), hasMore |-> g.tasks.nextLink, graph |-> sent]

\* createPlannerTask(input) of the tools' plannerService
createPlannerTaskForUser(input, env, g) ==
  LET targetUserId == IF input.userId = "me" THEN env.USER_ID ELSE input.userId
      post == GraphRequest("POST", <<"planner", "tasks">>, g.create = "ok")
      get == GraphRequest("GET", <<"planner", "tasks", CreatedId, "details">>,
                          g.details = "ok")
      patch == GraphRequest("PATCH", <<"planner", "tasks", CreatedId, "details">>,
                            g.patch = "ok")
      created == [id |-> CreatedId, title |-> input.title, planId |-> input.planId,
                  bucketId |-> input.bucketId,
                  assignments |-> IF targetUserId # "" THEN {targetUserId} ELSE {},
                  notes |-> ""]
  IN  IF g.create # "ok"
      THEN [threw |-> TRUE, task |-> created, graph |-> <<post>>,
            message |-> "Failed to create planner task"]
      ELSE IF input.notes = ""
      THEN [threw |-> FALSE, task |-> created, graph |-> <<post>>, message |-> ""]
      ELSE IF g.details # "ok"
      THEN [threw |-> FALSE, task |-> created, graph |-> <<post, get>>,
            message |-> ""]
      ELSE IF g.patch # "ok"
      THEN [threw |-> FALSE, task |-> created, graph |-> <<post, get, patch>>,
            message |-> ""]
      ELSE [threw |-> FALSE, task |-> [created EXCEPT !.notes = input.notes],
            graph |-> <<post, get, patch>>, message |-> ""]

\* what a tool handler returns: the text block, taken apart into what it
\* says (kind, message, count, one row per task or contact), and the isError
\* flag (FALSE: the result carries no such flag)
ToolResult(kind, message, count, rows, isError) ==
  [kind |-> kind, message |-> message, count |-> count, rows |-> rows,
   isError |-> isError]

\* a result together with the Graph requests issued to produce it
Handled(result, graph) == [result |-> result, graph |-> graph]

\* no result yet
NoToolResult == ToolResult("", "", 0, <<>>, FALSE)

\* the handler of get-planner-tasks
getPlannerTasksTool(args, env, g) ==
  LET f == fetchPlannerTasksForUser(args, env, g)
  IN  IF f.threw
      THEN Handled(ToolResult("error", "Error fetching tasks: " \o f.message,
                              0, <<>>, FALSE), f.graph)
      ELSE Handled(ToolResult(IF f.hasMore THEN "found, more available"
                              ELSE "found", "", f.count,
                              IF f.count > 0 THEN f.tasks ELSE <<>>, FALSE),
                   f.graph)

\* the handler of create-planner-task
createPlannerTaskTool(args, env, g) ==
  LET f == fetchPlannerTasksForUser([user_id |-> "me", status |-> ""], env, g)
      lookup == args.planId = "" \/ args.bucketId = ""
      looked == IF lookup THEN f.graph ELSE <<>>
      refused(message) ==
        Handled(ToolResult("error", "Failed to create task: " \o message,
                           0, <<>>, FALSE), looked)
      create(params) ==
        LET c == createPlannerTaskForUser(params, env, g)
        IN  IF c.threw
            THEN Handled(ToolResult("error", "Failed to create task: " \o c.message,
                                    0, <<>>, FALSE), looked \o c.graph)
            ELSE Handled(ToolResult("created", "", 1, <<c.task>>, FALSE),
                         looked \o c.graph)
  IN  IF ~lookup THEN create(args)
      ELSE IF f.threw
      THEN refused("Failed to fetch existing tasks: " \o f.message)
      ELSE IF Len(f.tasks) > 0
      THEN IF f.tasks[1].ids.planId = "" \/ f.tasks[1].ids.bucketId = ""
           THEN refused("Failed to fetch existing tasks: Existing task is missing required IDs")
           ELSE create([args EXCEPT !.planId = f.tasks[1].ids.planId,
                                    !.bucketId = f.tasks[1].ids.bucketId])
      ELSE IF env.DEFAULT_PLAN_ID # "" /\ env.DEFAULT_BUCKET_ID # ""
      THEN create([args EXCEPT !.planId = env.DEFAULT_PLAN_ID,
                               !.bucketId = env.DEFAULT_BUCKET_ID])
      ELSE refused("Failed to fetch existing tasks: No existing tasks found")

\* createContact(contactData) of the contacts service
createContact(args, env, g) ==
  LET post == GraphRequest("POST", <<"users", TargetUser("me", env), "contacts">>,
                           g.contact = "ok")
  IN  IF args.givenName = "" /\ args.displayName = ""
      THEN [threw |-> TRUE, graph |-> <<>>,
            message |-> "Failed to create contact: Either givenName or displayName is required"]
      ELSE IF g.contact # "ok"
      THEN [threw |-> TRUE, graph |-> <<post>>, message |-> "Failed to create contact"]
      ELSE [threw |-> FALSE, graph |-> <<post>>, message |-> ""]

\* the handler of create-contact
createContactTool(args, env, g) ==
  LET c == createContact(args, env, g)
  IN  IF c.threw
      THEN Handled(ToolResult("error", "Failed to create contact: " \o c.message,
                              0, <<>>, FALSE), c.graph)
      ELSE Handled(ToolResult("created", "", 1, <<args>>, FALSE), c.graph)

\* listContacts(options) of the contacts service
listContacts(args, env, g) ==
  [threw |-> ~g.contacts.ok, value |-> g.contacts.value,
   nextLink |-> g.contacts.nextLink,
   graph |-> <<GraphRequest("GET", <<"users", TargetUser("me", env), "contacts">>,
                            g.contacts.ok)>>]

\* the handler of list-contacts
listContactsTool(args, env, g) ==
  LET l == listContacts(args, env, g)
  IN  IF l.threw
      THEN Handled(ToolResult("error", "Failed to list contacts: Failed to list contacts",
                              0, <<>>, FALSE), l.graph)
      ELSE IF Len(l.value) = 0
      THEN Handled(ToolResult("none", "No contacts found.", 0, <<>>, FALSE), l.graph)
      ELSE Handled(ToolResult(IF l.nextLink THEN "found, more available"
                              ELSE "found", "", Len(l.value), l.value, FALSE),
                   l.graph)

NoToken ==
  "Authentication token not found. Please configure the AUTH_TOKEN environment variable in your MCP server configuration."

\* the handler of fetchTasks; token is currentAuthToken
fetchTasksTool(args, token, g) ==
  LET get == <<GraphRequest("GET", <<"me", "calendarView">>, g.events # "error")>>
  IN  IF token = ""
      THEN Handled(ToolResult("error", "Error fetching calendar events: " \o NoToken,
                              0, <<>>, TRUE), <<>>)
      ELSE IF g.events = "error"
      THEN Handled(ToolResult("error",
                              "Error fetching calendar events: Microsoft Graph API error",
                              0, <<>>, TRUE), get)
      ELSE IF g.events = "notArray"
      THEN Handled(ToolResult("error",
                              "Error: Unexpected response format from planner API.",
                              0, <<>>, FALSE), get)
      ELSE IF g.events = "none"
      THEN Handled(ToolResult("none", "No tasks found in the specified plan.",
                              0, <<>>, FALSE), get)
      ELSE Handled(ToolResult("found", "", 1, <<"e1">>, FALSE), get)

\* the handler of createTask; token is currentAuthToken
createTaskTool(args, token, g) ==
  LET failed(message, graph) ==
        Handled(ToolResult("error", "Error creating planner task: " \o message,
                           0, <<>>, TRUE), graph)
      lookup == args.planId = "" \/ args.bucketId = ""
      targetPlanId == IF args.planId # "" THEN args.planId ELSE "p2"
      targetBucketId == IF args.bucketId # "" THEN args.bucketId ELSE "b2"
      plans == GraphRequest("GET", <<"me", "planner", "plans">>, g.plans # "error")
      buckets == GraphRequest("GET", <<"planner", "plans", targetPlanId, "buckets">>,
                              g.buckets # "error")
      post == GraphRequest("POST", <<"planner", "tasks">>, g.create = "ok")
      looked == IF lookup THEN <<plans, buckets>> ELSE <<>>
  IN  IF token = "" THEN failed(NoToken, <<>>)
      ELSE IF lookup /\ g.plans = "error"
      THEN failed("Failed to fetch plans", <<plans>>)
      ELSE IF lookup /\ g.plans = "empty"
      THEN failed("No plans found for this user. Please create a plan first.",
                  <<plans>>)
      ELSE IF lookup /\ g.buckets = "error"
      THEN failed("Failed to fetch buckets", <<plans, buckets>>)
      ELSE IF lookup /\ g.buckets = "empty"
      THEN failed("No buckets found in the selected plan. Please create a bucket first.",
                  <<plans, buckets>>)
      ELSE IF g.create # "ok"
      THEN failed("Failed to create task", looked \o <<post>>)
      ELSE Handled(ToolResult("created", "", 1,
                              <<[id |-> CreatedId, title |-> args.title,
                                 planId |-> targetPlanId,
                                 bucketId |-> targetBucketId]>>, FALSE),
                   looked \o <<post>>)

\* a tool call: the tool, its arguments, the environment and the answers of
\* the Graph API
Call(tool, args, env, graph) ==
  [tool |-> tool, args |-> args, env |-> env, graph |-> graph]

NoCall == Call("", [title |-> ""], DefaultEnv, DefaultToolGraph)

GetPlannerTasksCalls ==
  {Call("get-planner-tasks",
        [user_id |-> u, status |-> s, top |-> t, skip |-> 0], DefaultEnv,
        [DefaultToolGraph EXCEPT !.tasks = a]) :
     u \in {"me", "u7"}, s \in ToolStatuses, t \in Tops, a \in PlanTasksAnswers}

CreateArgs ==
  [title : {"T"}, planId : {"", "p1"}, bucketId : {"", "b1"}, notes : {"", "n"},
   userId : {"me"}]

CreatePlannerTaskCalls ==
  {Call("create-planner-task", args, env, [DefaultToolGraph EXCEPT !.tasks = a]) :
     args \in CreateArgs, env \in Envs, a \in PlanTasksAnswers}
  \cup {Call("create-planner-task", args, env,
             [DefaultToolGraph EXCEPT !.create = w[1], !.details = w[2],
                                      !.patch = w[3]]) :
          args \in CreateArgs, env \in Envs,
          w \in WriteAnswers \X WriteAnswers \X WriteAnswers}

ContactCalls ==
  {Call("create-contact", [givenName |-> n, displayName |-> d], DefaultEnv,
        [DefaultToolGraph EXCEPT !.contact = w]) :
     n \in {"", "Ada"}, d \in {"", "Ada L"}, w \in WriteAnswers}
  \cup {Call("list-contacts", [top |-> 10], DefaultEnv,
             [DefaultToolGraph EXCEPT !.contacts = a]) : a \in ContactsAnswers}

TokenToolCalls ==
  {Call("fetchTasks", [startDateTime |-> "d1", endDateTime |-> "d2"], DefaultEnv,
        [DefaultToolGraph EXCEPT !.events = a]) : a \in EventsAnswers}
  \cup {Call("createTask", [title |-> "T", planId |-> p, bucketId |-> b],
             DefaultEnv,
             [DefaultToolGraph EXCEPT !.plans = l[1], !.buckets = l[2],
                                      !.create = w]) :
          p \in {"", "p1"}, b \in {"", "b1"},
          l \in LookupAnswers \X LookupAnswers, w \in WriteAnswers}

ToolCalls ==
  GetPlannerTasksCalls \cup CreatePlannerTaskCalls \cup ContactCalls
    \cup TokenToolCalls

\* the MCP server dispatching a call to the handler registered for the tool
CallTool(c, token) ==
  IF c.tool = "get-planner-tasks" THEN getPlannerTasksTool(c.args, c.env, c.graph)
  ELSE IF c.tool = "create-planner-task"
  THEN createPlannerTaskTool(c.args, c.env, c.graph)
  ELSE IF c.tool = "create-contact" THEN createContactTool(c.args, c.env, c.graph)
  ELSE IF c.tool = "list-contacts" THEN listContactsTool(c.args, c.env, c.graph)
  ELSE IF c.tool = "fetchTasks" THEN fetchTasksTool(c.args, token, c.graph)
  ELSE createTaskTool(c.args, token, c.graph)

\* ---------------------------------------------- the createTask handler, step by step
\* The handler is an async function: it runs from one await to the next, and
\* between two of its steps other inbound requests are served.  h is the
\* running handler: pc says which response it awaits, owner is the token of
\* the inbound request that carried the call, sent are the requests it made
\* to the Graph API (each with the Authorization token it was given and the
\* number of responses the handler had received when it was made), pending
\* the number of requests not answered yet.
CreateTaskCalls == {c \in TokenToolCalls : c.tool = "createTask"}

NoBody == [planId |-> "", bucketId |-> ""]

Fetch(h, method, url, token, body) ==
  [h EXCEPT !.sent = Append(@, [method |-> method, url |-> url, token |-> token,
                                body |-> body, answered |-> h.answered]),
            !.pending = @ + 1]

\* the awaited response has arrived
Answered(h) == [h EXCEPT !.pending = @ - 1, !.answered = @ + 1]

Return(h, result) == [h EXCEPT !.pc = "done", !.result = result]

CreateTaskError(message) ==
  ToolResult("error", "Error creating planner task: " \o message, 0, <<>>, TRUE)

NoRun ==
  [pc |-> "idle", owner |-> "", call |-> NoCall, targetPlanId |-> "",
   targetBucketId |-> "", sent |-> <<>>, pending |-> 0, answered |-> 0,
   result |-> NoToolResult]

\* a handler that asks for the plans and for the buckets at once
createTaskStep_Parallel(h, token) ==
  LET args == h.call.args
      g == h.call.graph
      lookup == args.planId = "" \/ args.bucketId = ""
      plan == IF args.planId # "" THEN args.planId ELSE "p2"
      bucket == IF args.bucketId # "" THEN args.bucketId ELSE "b2"
      post(x) == [Fetch(x, "POST", <<"planner", "tasks">>, token,
                        [planId |-> x.targetPlanId, bucketId |-> x.targetBucketId])
                    EXCEPT !.pc = "create"]
  IN  IF h.pc = "start"
      THEN IF token = "" THEN Return(h, CreateTaskError(NoToken))
           ELSE IF lookup
           THEN [Fetch(Fetch(h, "GET", <<"me", "planner", "plans">>, token, NoBody),
                       "GET", <<"planner", "plans", plan, "buckets">>, token, NoBody)
                   EXCEPT !.pc = "plans"]
           ELSE post([h EXCEPT !.targetPlanId = args.planId,
                               !.targetBucketId = args.bucketId])
      ELSE IF h.pc = "plans"
      THEN IF g.plans = "error"
           THEN Return(Answered(h), CreateTaskError("Failed to fetch plans"))
           ELSE IF g.plans = "empty"
           THEN Return(Answered(h), CreateTaskError(
                  "No plans found for this user. Please create a plan first."))
           ELSE [Answered(h) EXCEPT !.targetPlanId = plan, !.pc = "buckets"]
      ELSE IF h.pc = "buckets"
      THEN IF g.buckets = "error"
           THEN Return(Answered(h), CreateTaskError("Failed to fetch buckets"))
           ELSE IF g.buckets = "empty"
           THEN Return(Answered(h), CreateTaskError(
                  "No buckets found in the selected plan. Please create a bucket first."))
           ELSE post([Answered(h) EXCEPT !.targetBucketId = bucket])
      ELSE IF g.create # "ok"
           THEN Return(Answered(h), CreateTaskError("Failed to create task"))
           ELSE Return(Answered(h),
                       ToolResult("created", "", 1,
                                  <<[id |-> CreatedId, title |-> args.title,
                                     planId |-> h.targetPlanId,
                                     bucketId |-> h.targetBucketId]>>, FALSE))

\* one step of the createTask handler, from where it stands to its next
\* await or to its return; token is currentAuthToken as the step reads it
createTaskStep(h, token) ==
  LET args == h.call.args
      g == h.call.graph
      lookup == args.planId = "" \/ args.bucketId = ""
      post(x) == [Fetch(x, "POST", <<"planner", "tasks">>, token,
                        [planId |-> x.targetPlanId, bucketId |-> x.targetBucketId])
                    EXCEPT !.pc = "create"]
  IN  IF h.pc = "start"
      \* the token check, then the first request
      THEN IF token = "" THEN Return(h, CreateTaskError(NoToken))
           ELSE IF lookup
           THEN [Fetch(h, "GET", <<"me", "planner", "plans">>, token, NoBody)
                   EXCEPT !.pc = "plans"]
           ELSE post([h EXCEPT !.targetPlanId = args.planId,
                               !.targetBucketId = args.bucketId])
      ELSE IF h.pc = "plans"
      \* the plans have arrived: targetPlanId = targetPlanId || plans.value[0].id
      THEN IF g.plans = "error"
           THEN Return(Answered(h), CreateTaskError("Failed to fetch plans"))
           ELSE IF g.plans = "empty"
           THEN Return(Answered(h), CreateTaskError(
                  "No plans found for this user. Please create a plan first."))
           ELSE LET plan == IF args.planId # "" THEN args.planId ELSE "p2"
                IN  [Fetch([Answered(h) EXCEPT !.targetPlanId = plan], "GET",
                           <<"planner", "plans", plan, "buckets">>, token, NoBody)
                       EXCEPT !.pc = "buckets"]
      ELSE IF h.pc = "buckets"
      \* the buckets have arrived: targetBucketId = targetBucketId || buckets.value[0].id
      THEN IF g.buckets = "error"
           THEN Return(Answered(h), CreateTaskError("Failed to fetch buckets"))
           ELSE IF g.buckets = "empty"
           THEN Return(Answered(h), CreateTaskError(
                  "No buckets found in the selected plan. Please create a bucket first."))
           ELSE LET bucket == IF args.bucketId # "" THEN args.bucketId ELSE "b2"
                IN  post([Answered(h) EXCEPT !.targetBucketId = bucket])
      \* the answer to the POST has arrived
      ELSE IF g.create # "ok"
           THEN Return(Answered(h), CreateTaskError("Failed to create task"))
           ELSE Return(Answered(h),
                       ToolResult("created", "", 1,
                                  <<[id |-> CreatedId, title |-> args.title,
                                     planId |-> h.targetPlanId,
                                     bucketId |-> h.targetBucketId]>>, FALSE))

\* ------------------------------------------------------------------- stop
\* no stop() since the server was started
NoStop == [registered |-> {}, ends |-> [c \in Conns |-> "none"]]

\* a stop() whose loop has no try block: the first client.end() that throws
\* ends the call, the clients after it are not ended and nothing is cleared
stop_AbortOnFailure(m, cn, throws) ==
  LET failing == {i \in 1..Len(m) : m[i].res \in throws}
      reached == {i \in 1..Len(m) : \A k \in failing : i <= k}
      ended == {m[i].res : i \in reached \ failing}
  IN  [clients |-> IF failing = {} THEN <<>> ELSE m,
       conn    |-> [c \in Conns |->
                      IF c \in ended /\ cn[c] = "open" THEN "dead" ELSE cn[c]],
       ends    |-> [c \in Conns |->
                      IF c \in ended THEN "ended"
                      ELSE IF \E i \in reached \cap failing : m[i].res = c
                      THEN "threw" ELSE "none"]]

\* stop() on the registry m with the connections cn, client.end() throwing
\* for the connections of `throws`: every entry is visited, the exception of
\* one is caught, then this.clients.clear().  ends: what end() did for each
\* connection ("none": it was not called).
stop(m, cn, throws) ==
  [clients |-> <<>>,
   conn    |-> [c \in Conns |->
                  IF c \in Registered(m) \ throws /\ cn[c] = "open"
                  THEN "dead" ELSE cn[c]],
   ends    |-> [c \in Conns |->
                  IF c \notin Registered(m) THEN "none"
                  ELSE IF c \in throws THEN "threw" ELSE "ended"]]

\* pathname === '/events' && req.method === 'GET'
IsSseRequest(r) == r.path = <<"events">> /\ r.method = "GET"

\* ------------------------------------------------------------------ state
NoRequest == Request("", <<>>, <<"", "">>, TRUE, DefaultBody, "", DefaultGraph)

NoResult == [op |-> "none", req |-> NoRequest, status |-> 0, body |-> [error |-> ""],
             headers |-> {}, graph |-> <<>>, call |-> NoCall, token |-> "",
             result |-> NoToolResult]

\* the request kept with its response
Summary(r) == r

\* everything but the exchange observed
Constructed ==
  /\ now = 0
  /\ listening = FALSE
  /\ clients = <<>>
  /\ conn = [c \in Conns |-> "none"]
  /\ connId = [c \in Conns |-> ""]
  /\ wire = [c \in Conns |-> <<>>]
  /\ tried = [c \in Conns |-> <<>>]
  /\ regAt = [c \in Conns |-> 0]
  /\ bcasts = <<>>
  /\ currentAuthToken = ""
  /\ run = NoRun
  /\ stopped = NoStop

Init == Constructed /\ last = NoResult

\* the clock advances
Tick ==
  /\ now < MaxTime
  /\ now' = now + 1
  /\ UNCHANGED <<listening, clients, conn, connId, wire, tried, regAt, bcasts, last,
               currentAuthToken, run, stopped>>

\* start(): this.server.listen(port)
Start ==
  /\ ~listening
  /\ listening' = TRUE
  /\ stopped' = NoStop
  /\ UNCHANGED <<now, clients, conn, connId, wire, tried, regAt, bcasts, last,
               currentAuthToken, run>>

\* GET /events: handleRequest dispatches to handleSseConnection
Subscribe(req) ==
  /\ listening
  /\ IsSseRequest(req)
  /\ \E c \in Conns :
       /\ conn[c] = "none"
       /\ \A d \in Conns : d < c => conn[d] # "none"
       /\ LET r == handleSseConnection(clients, wire, c, now)
          IN  /\ clients' = r.clients
              /\ wire' = r.wire
              /\ connId' = [connId EXCEPT ![c] = r.clientId]
       /\ conn' = [conn EXCEPT ![c] = "open"]
       /\ regAt' = [regAt EXCEPT ![c] = Len(bcasts)]
       /\ last' = [NoResult EXCEPT !.op = "subscribe", !.req = Summary(req),
                                   !.status = 200,
                                   !.headers = writeHead(CorsHeaders, SseHeaders)]
  /\ UNCHANGED <<now, listening, tried, bcasts,
               currentAuthToken, run, stopped>>

\* any other request: handleRequest answers it
Respond(req) ==
  /\ listening
  /\ ~IsSseRequest(req)
  /\ LET resp == handleRequest(req)
     IN  last' = [NoResult EXCEPT !.op = "respond", !.req = Summary(req),
                                  !.status = resp.status, !.body = resp.body,
                                  !.headers = resp.headers, !.graph = resp.graph]
  /\ UNCHANGED <<now, listening, clients, conn, connId, wire, tried, regAt, bcasts,
               currentAuthToken, run, stopped>>

\* the client goes away: the socket is closed, 'close' is not yet emitted
Disconnect(c) ==
  /\ conn[c] = "open"
  /\ conn' = [conn EXCEPT ![c] = "dead"]
  /\ UNCHANGED <<now, listening, clients, connId, wire, tried, regAt, bcasts, last,
               currentAuthToken, run, stopped>>

\* the 'close' event of the request of connection c
CloseHandler(c) ==
  /\ conn[c] = "dead"
  /\ conn' = [conn EXCEPT ![c] = "closed"]
  /\ clients' = onClose(clients, connId[c])
  /\ UNCHANGED <<now, listening, connId, wire, tried, regAt, bcasts, last,
               currentAuthToken, run, stopped>>

\* broadcast(eventType, data)
Broadcast(eventType, data) ==
  /\ Len(bcasts) < MaxBroadcasts
  /\ \E wf \in [Conns -> WriteFailures] :
       LET call == [n         |-> Len(bcasts) + 1,
                    eventType |-> eventType,
                    event     |-> SseEvent(eventType, data, now),
                    alive     |-> [c \in Conns |-> conn[c] = "open"],
                    wf        |-> wf]
           st == broadcast([clients |-> clients, wire |-> wire, tried |-> tried,
                            raised |-> FALSE], call)
       IN  /\ clients' = st.clients
           /\ wire' = st.wire
           /\ tried' = st.tried
           /\ bcasts' = Append(bcasts,
                          [eventType |-> eventType,
                           data    |-> data,
                           at      |-> now,
                           event   |-> call.event,
                           threw   |-> st.raised,
                           visited |-> [i \in 1..Len(clients) |-> clients[i].res],
                           open    |-> {c \in Conns : conn[c] = "open"}])
  /\ UNCHANGED <<now, listening, conn, connId, regAt, last,
               currentAuthToken, run, stopped>>

\* stop(): end every registered response (client.end() throws for at most
\* one of them), clear the registry, close the server
Stop ==
  /\ \E endThrows \in {{}} \cup {{c} : c \in Registered(clients)} :
       LET r == stop(clients, conn, endThrows)
       IN  /\ conn' = r.conn
           /\ clients' = r.clients
           /\ stopped' = [registered |-> Registered(clients), ends |-> r.ends]
  /\ listening' = FALSE
  /\ UNCHANGED <<now, connId, wire, tried, regAt, bcasts, last,
               currentAuthToken, run>>

\* The broadcaster: subscriptions, disconnects, broadcasts, start and stop.
Next ==
  \/ Tick
  \/ Start
  \/ Subscribe(EventSourceRequest)
  \/ \E c \in Conns : Disconnect(c)
  \/ \E c \in Conns : CloseHandler(c)
  \/ \E in \in BroadcastInputs : Broadcast(in[1], in[2])
  \/ Stop

Spec == Init /\ [][Next]_vars

\* 'close' is emitted for every connection whose socket is gone
FairSpec == Spec /\ \A c \in Conns : WF_vars(CloseHandler(c))

\* The HTTP surface: every request against the server.  The request handlers
\* read and write nothing of the registry, so broadcasts are left out here.
HttpNext ==
  \/ Tick
  \/ Start
  \/ \E req \in Requests : Subscribe(req)
  \/ \E req \in Requests : Respond(req)
  \/ \E c \in Conns : Disconnect(c)
  \/ \E c \in Conns : CloseHandler(c)
  \/ Stop

HttpSpec == Init /\ [][HttpNext]_vars

\* The planner API as a function of the request: a request of ApiRequests
\* and the answers of the Graph API are drawn at the start, the server
\* handles it once it listens.  No handler of the API touches the registry
\* or anything a former request left; GET /events registers its connection.
ApiInit ==
  /\ Constructed
  /\ \E req \in ApiRequests : last = [NoResult EXCEPT !.op = "request", !.req = req]

\* the server handles the request that arrived: handleRequest answers it or
\* hands it to handleSseConnection
Serve ==
  /\ last.op = "request"
  /\ Respond(last.req) \/ Subscribe(last.req)

ApiNext ==
  \/ Start
  \/ Serve
  \/ Stop

ApiSpec == ApiInit /\ [][ApiNext]_vars

\* index.ts fetch(): every inbound request stores its token (or none) as the
\* shared auth token of the tools
SetAuthToken(token) ==
  /\ currentAuthToken' = token
  /\ UNCHANGED <<now, listening, clients, conn, connId, wire, tried, regAt, bcasts,
                 last, run, stopped>>

\* the MCP server runs the handler of the tool that was called
Invoke ==
  /\ last.op = "call"
  /\ LET h == CallTool(last.call, currentAuthToken)
     IN  last' = [last EXCEPT !.op = "tool", !.token = currentAuthToken,
                              !.result = h.result, !.graph = h.graph]
  /\ UNCHANGED <<now, listening, clients, conn, connId, wire, tried, regAt, bcasts,
                 currentAuthToken, run, stopped>>

\* The tools as functions of the call: a call of ToolCalls and the answers
\* of the Graph API are drawn at the start; the shared token is set by the
\* inbound requests.
ToolInit ==
  /\ Constructed
  /\ \E c \in ToolCalls : last = [NoResult EXCEPT !.op = "call", !.call = c]

ToolNext ==
  \/ \E token \in AuthTokens : SetAuthToken(token)
  \/ Invoke

ToolSpec == ToolInit /\ [][ToolNext]_vars

\* index.ts fetch() for the inbound request that carries the createTask
\* call: it stores the token of that request, then the MCP server is handed
\* the request
Arrive ==
  /\ run.pc = "called"
  /\ currentAuthToken' = run.owner
  /\ run' = [run EXCEPT !.pc = "start"]
  /\ UNCHANGED <<now, listening, clients, conn, connId, wire, tried, regAt, bcasts,
                 last, stopped>>

\* the createTask handler runs up to its next await
Step ==
  /\ run.pc \in {"start", "plans", "buckets", "create"}
  /\ run' = createTaskStep(run, currentAuthToken)
  /\ UNCHANGED <<now, listening, clients, conn, connId, wire, tried, regAt, bcasts,
                 currentAuthToken, last, stopped>>

\* The agent: one createTask call, carried by an inbound request with a
\* token of its own, while other inbound requests keep arriving.
AgentInit ==
  /\ now = 0 /\ listening = FALSE /\ clients = <<>>
  /\ conn = [c \in Conns |-> "none"] /\ connId = [c \in Conns |-> ""]
  /\ wire = [c \in Conns |-> <<>>] /\ tried = [c \in Conns |-> <<>>]
  /\ regAt = [c \in Conns |-> 0] /\ bcasts = <<>>
  /\ currentAuthToken = ""
  /\ last = NoResult
  /\ stopped = NoStop
  /\ \E c \in CreateTaskCalls : \E owner \in AuthTokens :
       run = [NoRun EXCEPT !.pc = "called", !.owner = owner, !.call = c]

AgentNext ==
  \/ Arrive
  \/ Step
  \/ \E token \in AuthTokens : SetAuthToken(token)

AgentSpec == AgentInit /\ [][AgentNext]_vars

\* The planner API and the tools together: one HTTP request or one tool call.
ServiceInit == ApiInit \/ ToolInit

ServiceNext == ApiNext \/ ToolNext

ServiceSpec == ServiceInit /\ [][ServiceNext]_vars


\* ============================================================== properties
\* number of copies of broadcast n that reached connection c
Copies(c, n) == Cardinality({i \in 1..Len(wire[c]) : wire[c][i].b = n})

\* the broadcasts whose frame reached connection c, in the order of arrival
RECURSIVE Received(_)
Received(w) ==
  IF w = <<>> THEN <<>>
  ELSE IF Head(w).b > 0 THEN <<Head(w).b>> \o Received(Tail(w))
  ELSE Received(Tail(w))

Accepted(c) == conn[c] # "none"

\* connections visited by broadcast n
Visited(n) == {bcasts[n].visited[i] : i \in 1..Len(bcasts[n].visited)}

\* the sendEvent call of broadcast n for connection c did not deliver
FailedIn(c, n) == \E i \in 1..Len(tried[c]) : tried[c][i].b = n /\ ~tried[c][i].ok

PossibleIds == {NumberToString(t) : t \in 0..MaxTime}

\* C1: every connection accepted before a broadcast and open when it is
\* issued receives exactly one copy of the event (stated for events that
\* serialise), and a connection accepted after the broadcast receives none.
C1_ExactlyOneCopy ==
  \A n \in 1..Len(bcasts) : \A c \in Conns :
    /\ (Accepted(c) /\ regAt[c] < n /\ c \in bcasts[n].open
          /\ ~Circular(bcasts[n].event)) => Copies(c, n) = 1
    /\ (~Accepted(c) \/ regAt[c] >= n) => Copies(c, n) = 0

\* C2: no two accepted connections share a client identifier.
C2_UniqueIds ==
  \A c, d \in Conns : (Accepted(c) /\ Accepted(d) /\ c # d) => connId[c] # connId[d]

\* C3: a subscriber whose write failed during a broadcast (of an event that
\* serialises: the failure is the connection's) is out of the registry from
\* the end of that broadcast on, and no later broadcast calls sendEvent for it.
C3_FailedWriteRemoves ==
  \A c \in Conns : \A i \in 1..Len(tried[c]) :
    (~tried[c][i].ok /\ ~Circular(bcasts[tried[c][i].b].event))
      => (c \notin Registered(clients) /\ i = Len(tried[c]))

\* C4: in every broadcast, a failed write to a registered subscriber A leaves
\* every other registered subscriber B whose connection is open with its copy
\* of the event, wherever A and B stand in the registry.
C4_FailureIsolated ==
  \A n \in 1..Len(bcasts) : \A a, b \in Conns :
    (a # b /\ a \in Visited(n) /\ b \in Visited(n) /\ FailedIn(a, n)
       /\ b \in bcasts[n].open /\ ~Circular(bcasts[n].event))
      => Copies(b, n) = 1

\* a broadcast in which the write to a subscriber visited first failed and a
\* subscriber visited after it got the frame
C4_Witness ==
  \E n \in 1..Len(bcasts) :
    /\ Len(bcasts[n].visited) >= 2
    /\ FailedIn(bcasts[n].visited[1], n)
    /\ Copies(bcasts[n].visited[2], n) = 1

\* C5: broadcast returns normally, whatever the registry holds and whichever
\* writes fail.
C5_BroadcastNeverThrows == \A n \in 1..Len(bcasts) : ~bcasts[n].threw

\* a broadcast in which a write failed, and another in which serialising failed
C5_Witness ==
  /\ \E n \in 1..Len(bcasts) : \E c \in Conns :
       FailedIn(c, n) /\ ~Circular(bcasts[n].event)
  /\ \E n \in 1..Len(bcasts) : \E c \in Conns :
       FailedIn(c, n) /\ Circular(bcasts[n].event)

\* C6: the broadcasts a subscriber receives are, in order and without a gap,
\* those issued from its registration on.
C6_InOrderNoGap ==
  \A c \in Conns :
    LET r == Received(wire[c])
    IN  \A i \in 1..Len(r) : r[i] = regAt[c] + i

\* C7: removing an identifier a second time, or removing an identifier that
\* is not registered, leaves the registry as it is.
C7_UnsubscribeIdempotent ==
  \A k \in PossibleIds :
    /\ onClose(onClose(clients, k), k) = onClose(clients, k)
    /\ (k \notin Keys(clients) => onClose(clients, k) = clients)

\* the close handlers of two connections with the same identifier have both
\* run: the second removed an identifier that was already gone
C7_Witness ==
  \E c, d \in Conns :
    c # d /\ conn[c] = "closed" /\ conn[d] = "closed" /\ connId[c] = connId[d]

\* C8: the first frame that reaches a subscriber is the `connected` event
\* with its identifier and a timestamp, and every broadcast frame comes
\* after it.
C8_ConnectedFirst ==
  \A c \in Conns :
    Accepted(c) =>
      /\ Len(wire[c]) >= 1
      /\ wire[c][1].b = 0
      /\ wire[c][1].frame.event = "connected"
      /\ wire[c][1].frame.data.clientId = connId[c]
      /\ wire[c][1].frame.data.timestamp \in {ToISOString(t) : t \in 0..MaxTime}
      /\ \A i \in 2..Len(wire[c]) : wire[c][i].b > 0

\* a subscriber that received a broadcast frame after its greeting
C8_Witness == \E c \in Conns : Len(wire[c]) >= 2

\* C9: a connection that closed is eventually out of the registry, and
\* once its close handler has run no broadcast calls sendEvent for it.
C9_ClosedIsRemoved ==
  /\ \A c \in Conns :
       (conn[c] = "dead") ~> (conn[c] = "closed" /\ c \notin Registered(clients))
  /\ [][\A c \in Conns : conn[c] = "closed" => tried'[c] = tried[c]]_vars
  /\ [](\A c \in Conns : conn[c] = "closed" => c \notin Registered(clients))

\* a subscriber got one broadcast, closed, and a later broadcast passed it by
C9_Witness ==
  \E c \in Conns :
    /\ conn[c] = "closed"
    /\ tried[c] # <<>>
    /\ tried[c][Len(tried[c])].b < Len(bcasts)

\* the endpoints the server serves
ServedEndpoint(r) ==
  \/ r.method = "GET" /\ r.path = <<"events">>
  \/ r.method \in {"GET", "POST"} /\ r.path = TasksPath
  \/ r.method = "GET" /\ IsTaskDetailsPath(r.path) /\ r.path[Len(r.path)] # ""

\* C10: a request to a served endpoint without a bearer token is answered
\* with 401 (stated for requests with a well-formed Host header).
C10_AllEndpointsNeedToken ==
  (/\ last.op \in {"respond", "subscribe"}
   /\ ServedEndpoint(last.req)
   /\ last.req.hostOk
   /\ AccessToken(last.req.auth) = "")
    => last.status = 401

\* a request to the planner API that needs a token
NeedsToken(r) ==
  \/ r.method \in {"GET", "POST"} /\ r.path = TasksPath
  \/ r.method = "GET" /\ IsTaskDetailsPath(r.path)

\* C11: a GET or POST of /api/planner/tasks, or a GET of a path that begins
\* with /api/planner/tasks/, whose Authorization header carries no bearer
\* token is answered with 401 and the body {"error":"Unauthorized - No access
\* token provided"}, whatever else the request holds (stated for requests
\* with a well-formed Host header).
C11_NoTokenIs401 ==
  (/\ last.op = "respond"
   /\ NeedsToken(last.req)
   /\ last.req.hostOk
   /\ AccessToken(last.req.auth) = "")
    => (last.status = 401 /\ last.body = Unauthorized.body)

\* an authenticated POST /api/planner/tasks with a JSON body
AuthenticatedCreate(r) ==
  /\ r.method = "POST"
  /\ r.path = TasksPath
  /\ AccessToken(r.auth) # ""
  /\ r.body.json

\* C12: an authenticated POST /api/planner/tasks whose JSON body has no (or
\* an empty) title, planId or bucketId is answered with 400 and a body whose
\* `required` member is ["title","planId","bucketId"], and no request to
\* create a task goes to the Graph API.
C12_MissingFieldsIs400 ==
  (/\ last.op = "respond"
   /\ AuthenticatedCreate(last.req)
   /\ (last.req.body.title = "" \/ last.req.body.planId = ""
         \/ last.req.body.bucketId = ""))
    => (/\ last.status = 400
        /\ last.body.required = <<"title", "planId", "bucketId">>
        /\ \A i \in 1..Len(last.graph) : last.graph[i].method # "POST")

\* a body with a title and a plan but no bucket was refused
C12_Witness ==
  /\ last.op = "respond"
  /\ AuthenticatedCreate(last.req)
  /\ last.req.body.title # ""
  /\ last.req.body.bucketId = ""
  /\ last.status = 400

\* C13: an authenticated GET /api/planner/tasks/:id for an id the Graph API
\* does not find is answered with 404.
C13_NotFoundIs404 ==
  (/\ last.op = "respond"
   /\ last.req.method = "GET"
   /\ IsTaskDetailsPath(last.req.path)
   /\ last.req.path[Len(last.req.path)] # ""
   /\ last.req.hostOk
   /\ last.req.auth = Authorized
   /\ last.req.graph.task = "notFound")
    => last.status = 404

\* a path the server does not serve: not /events, not /api/planner/tasks and
\* not under /api/planner/tasks/
UnknownPath(path) ==
  path # <<"events">> /\ path # TasksPath /\ ~IsTaskDetailsPath(path)

\* C14 as claimed: whatever the method, a request to a path the server does
\* not serve is answered with 404 and a JSON error body.
C14_AnyMethodUnknownPathIs404 ==
  (last.op = "respond" /\ UnknownPath(last.req.path))
    => (last.status = 404 /\ last.body.error # "")

\* C14 as amended: for every method but OPTIONS, a request to a path that
\* is not /events, not /api/planner/tasks and does not begin with
\* /api/planner/tasks/ is answered with 404 and the JSON body
\* {"error":"Endpoint not found"}; OPTIONS is answered with 200 on any path.
C14_UnknownPathIs404 ==
  /\ (last.op = "respond" /\ UnknownPath(last.req.path)
        /\ last.req.method # "OPTIONS")
       => (last.status = 404 /\ last.body = [error |-> "Endpoint not found"])
  /\ (last.op = "respond" /\ last.req.method = "OPTIONS") => last.status = 200

\* a DELETE of a path the server does not serve was answered
C14_Witness ==
  /\ last.op = "respond"
  /\ UnknownPath(last.req.path)
  /\ last.req.method = "DELETE"
  /\ last.status = 404

\* a GET /api/planner/tasks that was answered with a task list
TasksReturned ==
  /\ last.op = "respond"
  /\ last.req.method = "GET"
  /\ last.req.path = TasksPath
  /\ last.status = 200

\* C15: GET /api/planner/tasks with a status filter returns only tasks whose
\* percentComplete matches it (notStarted: 0, inProgress: strictly between 0
\* and 100, completed: 100), whatever list the Graph API answered with.
C15_StatusFilterHolds ==
  TasksReturned =>
    \A i \in 1..Len(last.body.tasks) :
      LET pc == last.body.tasks[i].percentComplete
      IN  /\ last.req.status = "notStarted" => pc = 0
          /\ last.req.status = "inProgress" => (pc > 0 /\ pc < 100)
          /\ last.req.status = "completed" => pc = 100

\* the Graph API ignored the filter `completed`: its answer holds a task of
\* the user that is half done and one that is done, and tasks were returned
C15_Witness ==
  /\ TasksReturned
  /\ last.req.status = "completed"
  /\ \E i \in 1..Len(last.req.graph.tasks.value) :
       /\ last.req.graph.tasks.value[i].percentComplete = 50
       /\ AssignedTo(last.req.graph.tasks.value[i], "u1")
  /\ Len(last.body.tasks) >= 1

\* C16: every task returned by GET /api/planner/tasks is assigned to the
\* user of the token: one of its assignment keys is the user id, bare or
\* behind the prefix 'user_'; a task without assignments is never returned.
C16_OnlyAssignedTasks ==
  TasksReturned =>
    \A i \in 1..Len(last.body.tasks) :
      LET t == last.body.tasks[i]
          userId == getUserIdFromToken(AccessToken(last.req.auth))
      IN  /\ t.assignments.has
          /\ \/ <<"user_", userId>> \in t.assignments.keys
             \/ <<"", userId>> \in t.assignments.keys

\* the Graph API answered with a task of another user or of nobody next to
\* one of the user's, and tasks were returned
C16_Witness ==
  /\ TasksReturned
  /\ \E i \in 1..Len(last.req.graph.tasks.value) :
       LET t == last.req.graph.tasks.value[i]
       IN  ~t.assignments.has \/ t.assignments.keys = {<<"user_", "u2">>}
  /\ Len(last.body.tasks) >= 1

\* the operation of the tool call failed: a Graph request it issued failed,
\* or the tool needs the shared auth token and there is none
OperationFailed ==
  \/ \E i \in 1..Len(last.graph) : ~last.graph[i].ok
  \/ last.call.tool \in {"fetchTasks", "createTask"} /\ last.token = ""

\* C17: the result a tool handler returns for an operation that failed
\* carries the isError flag set to true, for each of the six tools (stated
\* for calls that store no notes).
C17_FailureSetsIsError ==
  (/\ last.op = "tool"
   /\ ~(last.call.tool = "create-planner-task" /\ last.call.args.notes # "")
   /\ OperationFailed)
    => last.result.isError

\* the last exchange was a task creation: POST /api/planner/tasks or the
\* create-planner-task tool
TaskCreation ==
  \/ last.op = "respond" /\ last.req.method = "POST" /\ last.req.path = TasksPath
  \/ last.op = "tool" /\ last.call.tool = "create-planner-task"

\* the caller was told that the operation failed
ReportsFailure ==
  IF last.op = "respond" THEN last.status >= 400 ELSE last.result.kind = "error"

\* the task handed back to the caller of a creation that reported success
ReturnedTask == IF last.op = "respond" THEN last.body.task ELSE last.result.rows[1]

\* a request that reads or writes the details (the notes) of a task
IsNotesRequest(q) == q.url[Len(q.url)] = "details"

\* C18 as claimed: whenever a Graph request issued by a task creation fails,
\* those that store the notes included, the creation reports a failure.
C18_AnyCreateFailureIsReported ==
  (TaskCreation /\ \E i \in 1..Len(last.graph) : ~last.graph[i].ok)
    => ReportsFailure

\* C18 as amended: a failure of the request that creates the task, or of the
\* lookup before it, ends the operation and is reported as a failure; a
\* failure of a request that stores the notes is not reported: the creation
\* reports success and the task it returns carries no notes.
C18_CreateFailureIsReported ==
  TaskCreation =>
    /\ \A i \in 1..Len(last.graph) :
         (~last.graph[i].ok /\ ~IsNotesRequest(last.graph[i]))
           => (ReportsFailure /\ i = Len(last.graph))
    /\ (\E i \in 1..Len(last.graph) :
          ~last.graph[i].ok /\ IsNotesRequest(last.graph[i]))
         => (~ReportsFailure /\ ReturnedTask.notes = "")

\* a POST /api/planner/tasks with notes was answered 201 although the write
\* of the notes failed
C18_Witness ==
  /\ last.op = "respond"
  /\ last.req.body.notes # ""
  /\ last.status = 201
  /\ \E i \in 1..Len(last.graph) :
       ~last.graph[i].ok /\ last.graph[i].method = "PATCH"

\* C19: within one HTTP request to the planner API or one tool call, no
\* Graph request is issued twice, and a Graph request that failed is not
\* attempted again.
C19_NoRetry ==
  (last.op \in {"respond", "tool"}) =>
    \A i, j \in 1..Len(last.graph) :
      i < j => ~(/\ last.graph[i].method = last.graph[j].method
                 /\ last.graph[i].url = last.graph[j].url)

\* the createTask tool looked up the plans, the lookup of the buckets
\* failed, and nothing was sent after it
C19_Witness ==
  /\ last.op = "tool"
  /\ last.call.tool = "createTask"
  /\ Len(last.graph) = 2
  /\ last.graph[1].ok
  /\ ~last.graph[2].ok

\* C20: the get-planner-tasks tool returns at most `top` tasks: the tasks
\* listed in its result and the count it reports do not exceed the `top`
\* argument, whatever list the Graph API answered with.
C20_AtMostTop ==
  (/\ last.op = "tool"
   /\ last.call.tool = "get-planner-tasks"
   /\ last.result.kind # "error")
    => (/\ Len(last.result.rows) <= last.call.args.top
        /\ last.result.count <= last.call.args.top)

\* C21: every response of the HTTP server, whatever the method, the path and
\* the outcome, and the event stream too, carries
\* Access-Control-Allow-Origin: *; an OPTIONS request to any path is answered
\* with 200 and an empty body, and no handler has run for it: nothing but the
\* headers set by handleRequest is sent, no Graph request is made and no
\* subscriber is registered.
AllowOrigin == <<"Access-Control-Allow-Origin", "*">>

C21_CorsOnEveryResponse ==
  last.op \in {"respond", "subscribe"}
    => /\ AllowOrigin \in last.headers
       /\ last.req.method = "OPTIONS"
            => /\ last.op = "respond"
               /\ last.status = 200
               /\ last.body = [error |-> ""]
               /\ last.headers = CorsHeaders
               /\ last.graph = <<>>

\* the event stream was opened with the CORS headers on it
C21_StreamWitness ==
  /\ last.op = "subscribe"
  /\ AllowOrigin \in last.headers
  /\ clients # <<>>

\* a preflight to /events was answered while nobody had subscribed
C21_Witness ==
  /\ last.op = "respond"
  /\ last.req.method = "OPTIONS"
  /\ last.req.path = <<"events">>
  /\ last.status = 200
  /\ clients = <<>>

\* C22: every frame written to a subscriber has the form: a line
\* `event: <kind>`, then one line `data: <JSON>` whose JSON contains no line
\* break, then a blank line; no frame is written partially or with another
\* line structure.
EventKinds == {"connected", "task_created", "task_updated", "task_deleted", "error"}

WellFramed(t) ==
  /\ Len(t) >= 7
  /\ t[1] = "event: " /\ t[2] \in EventKinds /\ t[3] = LF
  /\ t[4] = "data: "
  /\ \A k \in 5..(Len(t) - 2) : t[k] # LF
  /\ t[5] = "{" /\ t[Len(t) - 2] = "}"
  /\ t[Len(t) - 1] = LF /\ t[Len(t)] = LF

C22_FrameFormat ==
  \A c \in Conns : \A i \in 1..Len(wire[c]) : WellFramed(wire[c][i].frame.text)

\* a subscriber got the frame of a broadcast whose payload holds a line break
C22_Witness ==
  \E c \in Conns : \E i \in 1..Len(wire[c]) :
    /\ wire[c][i].b > 0
    /\ "note" \in DOMAIN wire[c][i].frame.data.data
    /\ \E k \in 1..Len(wire[c][i].frame.data.data.note) :
         wire[c][i].frame.data.data.note[k] = LF

\* C23: for every broadcast(kind, payload), the data of the frame delivered
\* to a subscriber is an object that contains the payload unchanged, the kind
\* as its type (equal to the event label of the frame) and a timestamp taken
\* at broadcast time; all subscribers of one broadcast get the same frame.
\* JSON.parse of a string: the pieces between the quotes, \n read as a line break
ParseString(t, from, to) ==
  [k \in 1..(to - from + 1) |-> IF t[from + k - 1] = "\\n" THEN LF ELSE t[from + k - 1]]

\* what a subscriber reads from a frame of a broadcast: the event label and
\* JSON.parse of the data line {type, data: {id, note}, timestamp}
ParseFrame(t) ==
  LET n == Len(t) - 2                     \* the last piece of the data line
      hasNote == t[17] = ","
      id == ParseString(t, 15, 15)[1]
  IN  [label |-> t[2],
       type  |-> ParseString(t, 8, 8)[1],
       data  |-> IF hasNote
                 THEN [id |-> id, note |-> ParseString(t, 20, n - 8)]
                 ELSE [id |-> id],
       timestamp |-> ParseString(t, n - 2, n - 2)[1]]

\* the payload as it was given: the members JSON knows
Payload(data) ==
  IF "note" \in DOMAIN data THEN [id |-> data.id, note |-> data.note]
  ELSE [id |-> data.id]

C23_FrameCarriesPayload ==
  \A c \in Conns : \A i \in 1..Len(wire[c]) :
    LET n == wire[c][i].b
        text == wire[c][i].frame.text
    IN  n > 0 =>
          /\ ParseFrame(text).data = Payload(bcasts[n].data)
          /\ ParseFrame(text).type = bcasts[n].eventType
          /\ ParseFrame(text).type = ParseFrame(text).label
          /\ ParseFrame(text).timestamp = ToISOString(bcasts[n].at)
          /\ \A d \in Conns : \A j \in 1..Len(wire[d]) :
               wire[d][j].b = n => wire[d][j].frame.text = text

\* two subscribers got the frame of the same broadcast, issued after the
\* clock had advanced
C23_Witness ==
  \E n \in 1..Len(bcasts) :
    /\ bcasts[n].at > 0
    /\ \A c \in Conns : \E i \in 1..Len(wire[c]) : wire[c][i].b = n

\* C24: the auth token held by the tools module is read-only after
\* initialization: once it is set, no later inbound request and no tool
\* invocation changes its value.
C24_TokenReadOnlyOnceSet ==
  [][currentAuthToken # "" => currentAuthToken' = currentAuthToken]_vars

\* C25: in the createTask tool, when planId or bucketId is missing, the
\* outbound requests are issued strictly one after another in the order plan
\* lookup, bucket lookup, task creation, with at most one request outstanding
\* at any time; the creation request is issued only after both lookups
\* succeeded with non-empty results, and it always carries a non-empty planId
\* and bucketId.
IsCreation(q) == q.method = "POST"

LookupNeeded(h) == h.call.args.planId = "" \/ h.call.args.bucketId = ""

LookupOrder ==
  <<<<"me", "planner", "plans">>, <<"planner", "plans">>, <<"planner", "tasks">>>>

C25_SequentialLookups ==
  /\ run.pending <= 1
  /\ \A i \in 1..Len(run.sent) :
       /\ run.sent[i].answered = i - 1
       /\ LookupNeeded(run) =>
            /\ i <= 3
            /\ SubSeq(run.sent[i].url, 1, Len(LookupOrder[i])) = LookupOrder[i]
            /\ IsCreation(run.sent[i])
                 => run.call.graph.plans = "ok" /\ run.call.graph.buckets = "ok"
       /\ IsCreation(run.sent[i])
            => run.sent[i].body.planId # "" /\ run.sent[i].body.bucketId # ""

\* a call without a bucketId has made its three requests
C25_Witness ==
  /\ run.call.args.planId # "" /\ run.call.args.bucketId = ""
  /\ Len(run.sent) = 3
  /\ IsCreation(run.sent[3])
  /\ run.pc = "done"

\* C26: when two inbound requests carrying different auth tokens are
\* interleaved, every outbound Graph request made on behalf of a request uses
\* the token of that same request, never the token of the other one.
\* Stated for a handler that started under the token of its own request (its
\* first Graph request carries it) and for the requests that carry a token.
C26_OwnTokenOnly ==
  \A i \in 1..Len(run.sent) :
    (run.sent[1].token = run.owner /\ run.sent[i].token # "")
      => run.sent[i].token = run.owner

\* C27: the close of one subscriber's connection removes only that
\* subscriber: when the close handler of a connection runs, every other
\* connection that is open and in the registry is still in the registry
\* afterwards (and so is still visited by the broadcasts that follow).
Closes(a) == conn[a] = "dead" /\ conn'[a] = "closed"

C27_CloseRemovesOnlyItself ==
  [][\A a \in Conns : \A c \in Conns \ {a} :
       (Closes(a) /\ conn[c] = "open" /\ c \in Registered(clients))
         => c \in Registered(clients')]_vars

\* C28: in the create-planner-task tool a planId or bucketId supplied by the
\* caller is never replaced: when only one of the two is supplied, the task is
\* created with the supplied value for that field, and a fallback value is
\* used only for the missing one.
C28_SuppliedIdIsKept ==
  (/\ last.op = "tool"
   /\ last.call.tool = "create-planner-task"
   /\ last.result.kind = "created")
    => /\ last.call.args.planId # ""
            => last.result.rows[1].planId = last.call.args.planId
       /\ last.call.args.bucketId # ""
            => last.result.rows[1].bucketId = last.call.args.bucketId

\* C29: no outbound Graph request is ever issued without an access token:
\* the handlers of the HTTP API make no Graph request when the bearer token is
\* absent or empty, the fetchTasks and createTask tools make none when the
\* stored auth token is absent or empty, and they report an error instead.
C29_NoRequestWithoutToken ==
  /\ (last.op = "respond" /\ AccessToken(last.req.auth) = "")
       => /\ last.graph = <<>>
          /\ last.req.method # "OPTIONS" => last.status >= 400
  /\ (/\ last.op = "tool"
      /\ last.call.tool \in {"fetchTasks", "createTask"}
      /\ last.token = "")
       => last.graph = <<>> /\ last.result.isError
  /\ \A i \in 1..Len(run.sent) : run.sent[i].token # ""

\* C30: after stop() has run the registry is empty and every connection
\* that was registered at the time of the call has been ended; a broadcast
\* issued after stop() writes to no connection; a failure to end one
\* connection does not prevent the others from being ended and removed.
\* Stated as long as the server has not been started again: end() was called
\* for every registered connection, each one but the failing one is no
\* longer open, and a broadcast leaves every stream as it was.
C30_StopEndsEverySubscriber ==
  /\ [](~listening =>
          /\ clients = <<>>
          /\ \A c \in stopped.registered :
               /\ stopped.ends[c] # "none"
               /\ stopped.ends[c] = "ended" => conn[c] # "open")
  /\ [][(~listening /\ Len(bcasts') > Len(bcasts))
          => wire' = wire /\ bcasts'[Len(bcasts')].visited = <<>>]_vars

\* two subscribers were registered when stop() ran: end() failed for the
\* first and the second was ended; a broadcast followed
C30_Witness ==
  /\ ~listening
  /\ stopped.registered = Conns
  /\ stopped.ends[1] = "threw" /\ stopped.ends[2] = "ended"
  /\ conn[1] = "open" /\ conn[2] # "open"
  /\ Len(bcasts) > 0

====
